---- MODULE Spec2Model ----
(***************************************************************************)
(* A model of expense_tracker.py: the JSON-backed expense list, its        *)
(* persistence (load_expenses / save_expenses / reset_expenses), the id    *)
(* allocator (next_id), the reports (list / category / month) and the      *)
(* menu loop that drives them.                                             *)
(*                                                                         *)
(* Text is a sequence of code points, so that strip(), lower(), slicing    *)
(* and the ordering used by sorted() are computed and not assumed.         *)
(* A Python or JSON value is a record [t, n, s]: a tag, a number and a     *)
(* text (0 and <<>> where the tag does not use them).  A float is its      *)
(* value n, kept to MantBits significant bits with round-half-to-even,     *)
(* which is IEEE-754 binary64 arithmetic at a reduced mantissa width       *)
(* (Python: 53 bits); exponent overflow is not modelled.                   *)
(***************************************************************************)
EXTENDS Integers, Sequences, FiniteSets, TLC

\* file:     what EXPENSE_FILE holds
\* expenses: the list of Expense in memory
\* pc:       where the program is: "start", "menu", "amount" (add_expense at its
\*           amount prompt), "exited", "crashed" (an exception left menu()), or
\*           "store" / "fn" when the functions are called on their own
\* pending:  raw_date, category and desc of add_expense at the amount prompt
\* ret:      what the last load_expenses or next_id call returned or raised
\* out:      what the last command printed, when it was a report
\* last:     the calls made so far, most recent last (the menu keeps two)
VARIABLES file, expenses, pc, pending, ret, out, last

vars == <<file, expenses, pc, pending, ret, out, last>>

(***************************************************************************)
(* Bounds of the model.                                                    *)
(***************************************************************************)
MantBits == 3
MaxRecords == 3
MaxFileLen == 2
MaxOps == 2

(***************************************************************************)
(* Text.                                                                   *)
(***************************************************************************)
T_uncategorized == <<117,110,99,97,116,101,103,111,114,105,122,101,100>>
T_NoDescription == <<78,111,32,100,101,115,99,114,105,112,116,105,111,110>>
T_yes == <<121,101,115>>
T_y == <<121>>
T_nan == <<110,97,110>>
T_inf == <<105,110,102>>
T_infinity == <<105,110,102,105,110,105,116,121>>

\* str.strip(): leading and trailing whitespace removed
IsSpace(c) == c \in {9, 10, 11, 12, 13, 28, 29, 30, 31, 32}

RECURSIVE LStrip(_)
LStrip(s) == IF s # <<>> /\ IsSpace(Head(s)) THEN LStrip(Tail(s)) ELSE s

RECURSIVE RStrip(_)
RStrip(s) ==
    IF s # <<>> /\ IsSpace(s[Len(s)]) THEN RStrip(SubSeq(s, 1, Len(s) - 1)) ELSE s

Strip(s) == RStrip(LStrip(s))

\* str.lower() on ASCII letters
Lower(s) == [i \in DOMAIN s |-> IF s[i] >= 65 /\ s[i] <= 90 THEN s[i] + 32 ELSE s[i]]

\* s[:k]
Prefix(s, k) == SubSeq(s, 1, IF Len(s) < k THEN Len(s) ELSE k)

\* str < str: code point by code point, a proper prefix first
RECURSIVE StrLess(_, _)
StrLess(a, b) ==
    IF b = <<>> THEN FALSE
    ELSE IF a = <<>> THEN TRUE
    ELSE IF Head(a) # Head(b) THEN Head(a) < Head(b)
    ELSE StrLess(Tail(a), Tail(b))

(***************************************************************************)
(* Values.                                                                 *)
(***************************************************************************)
NoText == <<>>

PyInt(k) == [t |-> "int", n |-> k, s |-> NoText]
PyFloat(k) == [t |-> "float", n |-> k, s |-> NoText]
PyNaN == [t |-> "nan", n |-> 0, s |-> NoText]
PyInf(sign) == [t |-> "inf", n |-> sign, s |-> NoText]
PyStr(x) == [t |-> "str", n |-> 0, s |-> x]
PyNone == [t |-> "none", n |-> 0, s |-> NoText]

\* JSON tokens of the storage file; J_absent stands for a key the object lacks
J_int(k) == [t |-> "jint", n |-> k, s |-> NoText]
J_real(k) == [t |-> "jreal", n |-> k, s |-> NoText]
J_NaN == [t |-> "jNaN", n |-> 0, s |-> NoText]
J_Infinity(sign) == [t |-> "jInfinity", n |-> sign, s |-> NoText]
J_str(x) == [t |-> "jstr", n |-> 0, s |-> x]
J_null == [t |-> "jnull", n |-> 0, s |-> NoText]
J_absent == [t |-> "absent", n |-> 0, s |-> NoText]

\* the result of a call: a value, or the exception that left it
Ok(v) == [ok |-> TRUE, err |-> "", v |-> v]
Raise(e) == [ok |-> FALSE, err |-> e, v |-> PyNone]
OkList(items) == [ok |-> TRUE, err |-> "", items |-> items]
RaiseList(e) == [ok |-> FALSE, err |-> e, items |-> <<>>]

(***************************************************************************)
(* float arithmetic.                                                       *)
(***************************************************************************)
RECURSIVE Pow2(_)
Pow2(k) == IF k = 0 THEN 1 ELSE 2 * Pow2(k - 1)

\* the least e with m < 2^(MantBits + e)
RECURSIVE ExpOf(_, _)
ExpOf(m, e) == IF m < Pow2(MantBits + e) THEN e ELSE ExpOf(m, e + 1)

\* a non-negative integer rounded to MantBits significant bits, ties to even
RoundNat(m) ==
    LET e == ExpOf(m, 0)
        q == m \div Pow2(e)
        r == m % Pow2(e)
        up == e > 0 /\ (2 * r > Pow2(e) \/ (2 * r = Pow2(e) /\ q % 2 = 1))
    IN  (IF up THEN q + 1 ELSE q) * Pow2(e)

RoundInt(k) == IF k < 0 THEN 0 - RoundNat(0 - k) ELSE RoundNat(k)

IsNumber(v) == v.t \in {"int", "float", "nan", "inf"}

\* int -> float conversion of an operand
AsFloat(v) == IF v.t = "int" THEN PyFloat(RoundInt(v.n)) ELSE v

\* a + b on numbers
NumAdd(a, b) ==
    IF a.t = "int" /\ b.t = "int" THEN PyInt(a.n + b.n)
    ELSE LET x == AsFloat(a)
             y == AsFloat(b)
         IN  IF x.t = "nan" \/ y.t = "nan" THEN PyNaN
             ELSE IF x.t = "inf" /\ y.t = "inf"
                  THEN IF x.n = y.n THEN x ELSE PyNaN
             ELSE IF x.t = "inf" THEN x
             ELSE IF y.t = "inf" THEN y
             ELSE PyFloat(RoundInt(x.n + y.n))

\* a + b
PyAdd(a, b) == IF IsNumber(a) /\ IsNumber(b) THEN Ok(NumAdd(a, b)) ELSE Raise("TypeError")

\* a < b on numbers (every comparison with nan is False)
NumLess(a, b) ==
    IF a.t = "nan" \/ b.t = "nan" THEN FALSE
    ELSE IF a.t = "inf" THEN a.n < 0 /\ ~(b.t = "inf" /\ b.n < 0)
    ELSE IF b.t = "inf" THEN b.n > 0
    ELSE a.n < b.n

\* a == b
PyEq(a, b) ==
    IF IsNumber(a) /\ IsNumber(b)
    THEN IF a.t = "nan" \/ b.t = "nan" THEN FALSE
         ELSE IF a.t = "inf" \/ b.t = "inf" THEN a.t = b.t /\ a.n = b.n
         ELSE a.n = b.n
    ELSE a.t = b.t /\ a.s = b.s

\* float(x) of a text: [sign] digits | inf | infinity | nan, case-insensitive,
\* surrounding whitespace ignored; anything else is a ValueError
IsDigits(s) == s # <<>> /\ \A i \in DOMAIN s : s[i] >= 48 /\ s[i] <= 57

RECURSIVE DigitsVal(_)
DigitsVal(s) ==
    IF s = <<>> THEN 0 ELSE 10 * DigitsVal(SubSeq(s, 1, Len(s) - 1)) + (s[Len(s)] - 48)

FloatOfText(raw) ==
    LET s == Lower(Strip(raw))
        neg == s # <<>> /\ Head(s) = 45
        signed == s # <<>> /\ Head(s) \in {43, 45}
        body == IF signed THEN Tail(s) ELSE s
    IN  IF IsDigits(body)
        THEN Ok(PyFloat(RoundInt(IF neg THEN 0 - DigitsVal(body) ELSE DigitsVal(body))))
        ELSE IF body = T_nan THEN Ok(PyNaN)
        ELSE IF body \in {T_inf, T_infinity} THEN Ok(PyInf(IF neg THEN 0 - 1 ELSE 1))
        ELSE Raise("ValueError")

\* a float() that turns what it cannot convert into 0.0
float_lenient(v) ==
    IF v.t = "str"
    THEN IF FloatOfText(v.s).ok THEN FloatOfText(v.s) ELSE Ok(PyFloat(0))
    ELSE IF IsNumber(v) THEN Ok(AsFloat(v))
    ELSE Ok(PyFloat(0))

\* float(x)
float(v) ==
    IF v.t = "str" THEN FloatOfText(v.s)
    ELSE IF IsNumber(v) THEN Ok(AsFloat(v))
    ELSE Raise("TypeError")

(***************************************************************************)
(* The Expense dataclass and the storage file.                             *)
(***************************************************************************)
Expense(id, date, category, description, amount) ==
    [id |-> id, date |-> date, category |-> category,
     description |-> description, amount |-> amount]

\* one element of the stored array: a JSON object with some of the five keys
\* (obj), or a JSON value that is no object
JObject(id, date, category, description, amount) ==
    [obj |-> TRUE, id |-> id, date |-> date, category |-> category,
     description |-> description, amount |-> amount]

JNonObject == [obj |-> FALSE, id |-> J_absent, date |-> J_absent, category |-> J_absent,
               description |-> J_absent, amount |-> J_absent]

\* EXPENSE_FILE: absent; bytes that are no UTF-8 text ("undecodable"); text that
\* is no JSON ("garbage"); a JSON number, true, false or null ("scalar"); a
\* non-empty JSON object or string ("object"); {} or "" ("emptyobject"); an array
File(kind, items) == [kind |-> kind, items |-> items]

AbsentFile == File("absent", <<>>)
ArrayFile(items) == File("array", items)

\* json.loads of one token
JsonValue(j) ==
    CASE j.t = "jint" -> PyInt(j.n)
      [] j.t = "jreal" -> PyFloat(RoundInt(j.n))
      [] j.t = "jNaN" -> PyNaN
      [] j.t = "jInfinity" -> PyInf(j.n)
      [] j.t = "jstr" -> PyStr(j.s)
      [] OTHER -> PyNone

\* json.dumps of one value
JsonToken(v) ==
    CASE v.t = "int" -> J_int(v.n)
      [] v.t = "float" -> J_real(v.n)
      [] v.t = "nan" -> J_NaN
      [] v.t = "inf" -> J_Infinity(v.n)
      [] v.t = "str" -> J_str(v.s)
      [] OTHER -> J_null

\* entry.get(key, default), given the key's token
Get(token, default) == IF token.t = "absent" THEN default ELSE JsonValue(token)

\* the Expense(...) call of load_expenses for one entry
EntryExpense(entry) ==
    IF ~entry.obj THEN Raise("AttributeError")
    ELSE LET amount == float(Get(entry.amount, PyInt(0)))
         IN  IF ~amount.ok THEN Raise(amount.err)
             ELSE Ok(Expense(Get(entry.id, PyInt(0)),
                             Get(entry.date, PyStr(<<>>)),
                             Get(entry.category, PyStr(<<>>)),
                             Get(entry.description, PyStr(<<>>)),
                             amount.v))

\* the for loop of load_expenses
RECURSIVE LoadItems(_, _)
LoadItems(raw, items) ==
    IF raw = <<>> THEN OkList(items)
    ELSE LET e == EntryExpense(Head(raw))
         IN  IF ~e.ok THEN RaiseList(e.err)
             ELSE LoadItems(Tail(raw), Append(items, e.v))

load_expenses(f) ==
    CASE f.kind = "absent" -> OkList(<<>>)
      [] f.kind = "undecodable" -> RaiseList("UnicodeDecodeError")
      [] f.kind = "garbage" -> OkList(<<>>)
      [] f.kind = "scalar" -> RaiseList("TypeError")
      [] f.kind = "object" -> RaiseList("AttributeError")
      [] f.kind = "emptyobject" -> OkList(<<>>)
      [] OTHER -> LoadItems(f.items, <<>>)

\* asdict(e), serialized
AsDict(e) ==
    JObject(JsonToken(e.id), JsonToken(e.date), JsonToken(e.category),
            JsonToken(e.description), JsonToken(e.amount))

\* a save that appends to the stored array
save_expenses_append(prior, list) ==
    ArrayFile((IF prior.kind = "array" THEN prior.items ELSE <<>>)
              \o [i \in DOMAIN list |-> AsDict(list[i])])

\* the file after save_expenses(list) (prior is the file before)
save_expenses(prior, list) == ArrayFile([i \in DOMAIN list |-> AsDict(list[i])])

\* the file after reset_expenses() with the given answer to its prompt
Confirmed(answer) == Lower(Strip(answer)) \in {T_yes, T_y}

reset_expenses(prior, answer) == IF Confirmed(answer) THEN ArrayFile(<<>>) ELSE prior

(***************************************************************************)
(* next_id.                                                                *)
(***************************************************************************)
\* a > b as max() asks it
PyGreater(a, b) ==
    IF IsNumber(a) /\ IsNumber(b) THEN Ok(NumLess(b, a))
    ELSE IF a.t = "str" /\ b.t = "str" THEN Ok(StrLess(b.s, a.s))
    ELSE Raise("TypeError")

\* max(ids) with best the largest so far
RECURSIVE MaxOf(_, _)
MaxOf(ids, best) ==
    IF ids = <<>> THEN Ok(best)
    ELSE LET g == PyGreater(Head(ids), best)
         IN  IF ~g.ok THEN Raise(g.err)
             ELSE MaxOf(Tail(ids), IF g.v THEN Head(ids) ELSE best)

\* an allocator that counts the records
next_id_count(list) == Ok(PyInt(Len(list) + 1))

next_id(list) ==
    IF list = <<>> THEN Ok(PyInt(1))
    ELSE LET ids == [i \in DOMAIN list |-> list[i].id]
             m == MaxOf(Tail(ids), Head(ids))
         IN  IF ~m.ok THEN Raise(m.err) ELSE PyAdd(m.v, PyInt(1))

(***************************************************************************)
(* The reports.  What a report prints is kept as data: ok/err, the rows    *)
(* behind the printed lines in the order printed, and the total of the     *)
(* TOTAL line (None where no such line is printed).                        *)
(***************************************************************************)
Report(rows, total) == [ok |-> TRUE, err |-> "", rows |-> rows, total |-> total]
ReportRaise(e) == [ok |-> FALSE, err |-> e, rows |-> <<>>, total |-> PyNone]
NoReport == Report(<<>>, PyNone)

\* a dict, as its items in insertion order
Item(k, v) == [k |-> k, v |-> v]

DictGet(d, k, default) ==
    IF \E i \in DOMAIN d : d[i].k = k
    THEN d[CHOOSE i \in DOMAIN d : d[i].k = k].v
    ELSE default

DictSet(d, k, v) ==
    IF \E i \in DOMAIN d : d[i].k = k
    THEN [i \in DOMAIN d |-> IF d[i].k = k THEN Item(k, v) ELSE d[i]]
    ELSE Append(d, Item(k, v))

\* sum(e.amount for e in list), from the int 0
RECURSIVE SumFrom(_, _)
SumFrom(list, acc) ==
    IF list = <<>> THEN acc ELSE SumFrom(Tail(list), NumAdd(acc, Head(list).amount))

Total(list) == SumFrom(list, PyInt(0))

\* an f-string field with a format spec: None does not take one
Formats(v) == v.t # "none"

list_expenses(list) ==
    IF list = <<>> THEN NoReport
    ELSE IF \E i \in DOMAIN list :
               ~(Formats(list[i].id) /\ Formats(list[i].date) /\ Formats(list[i].category))
         THEN ReportRaise("TypeError")
         ELSE Report(list, Total(list))

\* the loop totals[key] = totals.get(key, 0) + e.amount over keys[i], list[i]
RECURSIVE Accumulate(_, _, _)
Accumulate(keys, list, totals) ==
    IF list = <<>> THEN totals
    ELSE Accumulate(Tail(keys), Tail(list),
                    DictSet(totals, Head(keys),
                            NumAdd(DictGet(totals, Head(keys), PyInt(0)), Head(list).amount)))

\* sorted(d.items()): the keys are distinct, so the key decides every comparison
RECURSIVE InsertItem(_, _)
InsertItem(sorted, x) ==
    IF sorted = <<>> THEN <<x>>
    ELSE IF StrLess(x.k.s, Head(sorted).k.s) THEN <<x>> \o sorted
    ELSE <<Head(sorted)>> \o InsertItem(Tail(sorted), x)

RECURSIVE SortItems(_, _)
SortItems(d, sorted) ==
    IF d = <<>> THEN sorted ELSE SortItems(Tail(d), InsertItem(sorted, Head(d)))

\* the items left in insertion order
Unsorted(d) == Report(d, PyNone)

Sorted(d) ==
    IF Len(d) >= 2 /\ \E i \in DOMAIN d : d[i].k.t # "str"
    THEN ReportRaise("TypeError")
    ELSE Report(SortItems(d, <<>>), PyNone)

summary_category(list) ==
    IF list = <<>> THEN NoReport
    ELSE Sorted(Accumulate([i \in DOMAIN list |-> list[i].category], list, <<>>))

\* the date taken whole
WholeDate(date) == date

\* e.date[:7]
Month(date) == PyStr(Prefix(date.s, 7))

summary_month(list) ==
    IF list = <<>> THEN NoReport
    ELSE IF \E i \in DOMAIN list : list[i].date.t # "str" THEN ReportRaise("TypeError")
    ELSE Sorted(Accumulate([i \in DOMAIN list |-> Month(list[i].date)], list, <<>>))

(***************************************************************************)
(* Inputs: what the user types, what the clock says, what the file holds.  *)
(***************************************************************************)
D_Jan15 == <<50,48,50,52,45,48,49,45,49,53>>
D_Jan02 == <<50,48,50,52,45,48,49,45,48,50>>
D_Feb01 == <<50,48,50,52,45,48,50,45,48,49>>
D_Short == <<50,48,50,52>>
T_food == <<102,111,111,100>>
T_rent == <<114,101,110,116>>
T_lunch == <<108,117,110,99,104>>

SeqsUpTo(pool, k) == UNION {[1..j -> pool] : j \in 0..k}

\* the answers to "Date", "Category" and "Description", with today's date
AddInputs ==
    {[date |-> <<>>, today |-> D_Feb01, category |-> <<32>>, description |-> <<>>],
     [date |-> <<32>> \o D_Jan15, today |-> D_Feb01, category |-> T_food \o <<32>>,
      description |-> T_lunch]}

\* the answers to "Amount": abc, -1, 0 and nan
AmountInputs == {<<97,98,99>>, <<45,49>>, <<48>>, T_nan}

\* the answers to the reset prompt: "yes", " Y ", "no", ""
ResetInputs == {T_yes, <<32,89,32>>, <<110,111>>, <<>>}

\* the answers to "Select an option": "1".."6", " 2", "9", ""
ChoiceInputs == {<<49>>, <<50>>, <<51>>, <<52>>, <<53>>, <<54>>, <<32,50>>, <<57>>, <<>>}

\* elements a stored array may hold
EntryPool ==
    {JObject(J_int(1), J_str(D_Jan15), J_str(T_food), J_str(T_lunch), J_real(1)),
     JObject(J_int(2), J_str(D_Feb01), J_str(T_rent), J_absent, J_int(Pow2(MantBits) + 1)),
     JObject(J_absent, J_absent, J_absent, J_absent, J_absent),
     JObject(J_int(3), J_str(D_Jan02), J_str(T_food), J_str(T_lunch), J_str(<<97,98,99>>)),
     JObject(J_null, J_str(D_Jan02), J_null, J_null, J_str(<<32,49>>)),
     JNonObject}

StoredFiles ==
    {File(k, <<>>) : k \in {"absent", "undecodable", "garbage", "scalar", "object",
                            "emptyobject"}}
    \cup {ArrayFile(items) : items \in SeqsUpTo(EntryPool, MaxFileLen)}

NoPending == [date |-> PyNone, category |-> PyNone, description |-> PyNone]
NoRet == Ok(PyNone)

(***************************************************************************)
(* The menu loop.                                                          *)
(***************************************************************************)
Init ==
    /\ file \in StoredFiles
    /\ expenses = <<>>
    /\ pc = "start"
    /\ pending = NoPending
    /\ ret = NoRet
    /\ out = NoReport
    /\ last = <<>>

\* menu(): expenses = load_expenses()
Start ==
    /\ pc = "start"
    /\ LET r == load_expenses(file)
       IN  /\ expenses' = r.items
           /\ pc' = IF r.ok THEN "menu" ELSE "crashed"
    /\ last' = <<"load">>
    /\ UNCHANGED <<file, pending, ret, out>>

Chosen(choice, option) == Strip(choice) = option

\* the menu keeps the two most recent commands in last
Recent(name) == IF last = <<>> THEN <<name>> ELSE <<last[Len(last)], name>>

\* add_expense up to the amount prompt
AddBegin(in) ==
    /\ pc = "menu"
    /\ \E choice \in ChoiceInputs : Chosen(choice, <<49>>)
    /\ Len(expenses) < MaxRecords
    /\ LET raw_date == Strip(in.date)
           category == Strip(in.category)
           desc == Strip(in.description)
       IN  pending' = [date |-> PyStr(IF raw_date = <<>> THEN in.today ELSE raw_date),
                       category |-> PyStr(IF category = <<>> THEN T_uncategorized
                                          ELSE category),
                       description |-> PyStr(IF desc = <<>> THEN T_NoDescription ELSE desc)]
    /\ pc' = "amount"
    /\ out' = NoReport
    /\ last' = Recent("add_begin")
    /\ UNCHANGED <<file, expenses, ret>>

\* one round of the while True loop: the amount that breaks out of it, if any
AmountRound(amount_input) ==
    LET money == FloatOfText(Strip(amount_input))
    IN  IF ~money.ok THEN [accepted |-> FALSE, money |-> PyNone]
        ELSE IF NumLess(money.v, PyInt(0)) THEN [accepted |-> FALSE, money |-> PyNone]
        ELSE [accepted |-> TRUE, money |-> money.v]

AmountRejected(amount_input) ==
    /\ pc = "amount"
    /\ ~AmountRound(amount_input).accepted
    /\ last' = Recent("amount_rejected")
    /\ UNCHANGED <<file, expenses, pc, pending, ret, out>>

\* the rest of add_expense: the new entry, the append and the save
AmountAccepted(amount_input) ==
    /\ pc = "amount"
    /\ AmountRound(amount_input).accepted
    /\ LET id == next_id(expenses)
           new_entry == Expense(id.v, pending.date, pending.category, pending.description,
                                AmountRound(amount_input).money)
       IN  IF id.ok
           THEN /\ expenses' = Append(expenses, new_entry)
                /\ file' = save_expenses(file, Append(expenses, new_entry))
                /\ pc' = "menu"
                /\ last' = Recent("add")
           ELSE /\ pc' = "crashed"
                /\ last' = Recent("add_raised")
                /\ UNCHANGED <<file, expenses>>
    /\ pending' = NoPending
    /\ UNCHANGED <<ret, out>>

ReportCmd(option, name, report) ==
    /\ pc = "menu"
    /\ \E choice \in ChoiceInputs : Chosen(choice, option)
    /\ out' = report
    /\ pc' = IF report.ok THEN "menu" ELSE "crashed"
    /\ last' = Recent(name)
    /\ UNCHANGED <<file, expenses, pending, ret>>

ListCmd == ReportCmd(<<50>>, "list", list_expenses(expenses))

CategoryCmd == ReportCmd(<<51>>, "summary_category", summary_category(expenses))

MonthCmd == ReportCmd(<<52>>, "summary_month", summary_month(expenses))

\* choice 5 without the reload
ResetCmdNoReload(answer) ==
    /\ pc = "menu"
    /\ \E choice \in ChoiceInputs : Chosen(choice, <<53>>)
    /\ file' = reset_expenses(file, answer)
    /\ out' = NoReport
    /\ last' = Recent(IF Confirmed(answer) THEN "reset" ELSE "reset_cancelled")
    /\ UNCHANGED <<expenses, pc, pending, ret>>

\* choice 5: reset_expenses(), then expenses = load_expenses()
ResetCmd(answer) ==
    /\ pc = "menu"
    /\ \E choice \in ChoiceInputs : Chosen(choice, <<53>>)
    /\ file' = reset_expenses(file, answer)
    /\ LET r == load_expenses(reset_expenses(file, answer))
       IN  /\ expenses' = r.items
           /\ pc' = IF r.ok THEN "menu" ELSE "crashed"
    /\ out' = NoReport
    /\ last' = Recent(IF Confirmed(answer) THEN "reset" ELSE "reset_cancelled")
    /\ UNCHANGED <<pending, ret>>

ExitCmd ==
    /\ pc = "menu"
    /\ \E choice \in ChoiceInputs : Chosen(choice, <<54>>)
    /\ pc' = "exited"
    /\ out' = NoReport
    /\ last' = Recent("exit")
    /\ UNCHANGED <<file, expenses, pending, ret>>

InvalidCmd ==
    /\ pc = "menu"
    /\ \E choice \in ChoiceInputs :
          ~\E option \in {<<49>>, <<50>>, <<51>>, <<52>>, <<53>>, <<54>>} :
              Chosen(choice, option)
    /\ out' = NoReport
    /\ last' = Recent("invalid")
    /\ UNCHANGED <<file, expenses, pc, pending, ret>>

Next ==
    \/ Start
    \/ \E in \in AddInputs : AddBegin(in)
    \/ \E a \in AmountInputs : AmountRejected(a)
    \/ \E a \in AmountInputs : AmountAccepted(a)
    \/ ListCmd
    \/ CategoryCmd
    \/ MonthCmd
    \/ \E answer \in ResetInputs : ResetCmd(answer)
    \/ ExitCmd
    \/ InvalidCmd

Spec == Init /\ [][Next]_vars

(***************************************************************************)
(* The persistence functions called on their own: any stored file, any     *)
(* list handed to save_expenses, up to MaxOps calls in any order.          *)
(***************************************************************************)
\* records as load_expenses and add_expense build them (amount is a float)
RecordPool ==
    {Expense(PyInt(1), PyStr(D_Jan15), PyStr(T_food), PyStr(T_lunch), PyFloat(1)),
     Expense(PyInt(0), PyStr(<<>>), PyStr(<<>>), PyStr(<<>>), PyFloat(0)),
     Expense(PyInt(5), PyStr(D_Feb01), PyStr(T_uncategorized), PyStr(T_NoDescription),
             PyFloat(Pow2(MantBits))),
     Expense(PyInt(2), PyStr(D_Jan02), PyStr(T_food), PyStr(T_lunch), PyNaN),
     Expense(PyNone, PyNone, PyStr(T_rent), PyNone, PyInf(1))}

RecordSets == SeqsUpTo(RecordPool, MaxRecords)

\* what the file may hold before a save
PriorFiles ==
    {AbsentFile, File("garbage", <<>>),
     ArrayFile(<<JObject(J_int(7), J_str(D_Short), J_str(T_rent), J_absent, J_int(2))>>)}

InitStore ==
    /\ \/ file \in StoredFiles /\ expenses = <<>>
       \/ file \in PriorFiles /\ expenses \in RecordSets
    /\ pc = "store"
    /\ pending = NoPending
    /\ ret = NoRet
    /\ out = NoReport
    /\ last = <<>>

CallSave ==
    /\ pc = "store"
    /\ Len(last) < MaxOps
    /\ file' = save_expenses(file, expenses)
    /\ last' = Append(last, "save")
    /\ UNCHANGED <<expenses, pc, pending, ret, out>>

CallLoad ==
    /\ pc = "store"
    /\ Len(last) < MaxOps
    /\ ret' = load_expenses(file)
    /\ last' = Append(last, "load")
    /\ UNCHANGED <<file, expenses, pc, pending, out>>

CallReset(answer) ==
    /\ pc = "store"
    /\ Len(last) < MaxOps
    /\ file' = reset_expenses(file, answer)
    /\ last' = Append(last, IF Confirmed(answer) THEN "reset" ELSE "reset_cancelled")
    /\ UNCHANGED <<expenses, pc, pending, ret, out>>

NextStore ==
    \/ CallSave
    \/ CallLoad
    \/ \E answer \in ResetInputs : CallReset(answer)

SpecStore == InitStore /\ [][NextStore]_vars

\* the menu loop, or the persistence functions called on their own
SpecReset == (Init \/ InitStore) /\ [][Next \/ NextStore]_vars

(***************************************************************************)
(* next_id and the reports called on their own, on any list of records.    *)
(***************************************************************************)
IdPool == {PyInt(0 - 1), PyInt(0), PyInt(1), PyInt(3), PyInt(5)}

CategoryPool == {PyStr(<<98>>), PyStr(<<97>>), PyStr(<<97, 98>>), PyStr(<<66>>)}

DatePool == {PyStr(D_Jan15), PyStr(D_Jan02), PyStr(D_Feb01), PyStr(D_Short)}

AmountPool == {PyFloat(1), PyFloat(Pow2(MantBits))}

IdRecords == {Expense(id, PyStr(D_Jan15), PyStr(T_food), PyStr(T_lunch), PyFloat(1)) :
                 id \in IdPool}

CategoryRecords == {Expense(PyInt(1), PyStr(D_Jan15), c, PyStr(T_lunch), a) :
                       c \in CategoryPool, a \in AmountPool}

MonthRecords == {Expense(PyInt(1), d, PyStr(T_food), PyStr(T_lunch), a) :
                    d \in DatePool, a \in AmountPool}

InitFn ==
    /\ expenses \in SeqsUpTo(IdRecords, MaxRecords)
                    \cup SeqsUpTo(CategoryRecords, MaxRecords)
                    \cup SeqsUpTo(MonthRecords, MaxRecords)
    /\ file = AbsentFile
    /\ pc = "fn"
    /\ pending = NoPending
    /\ ret = NoRet
    /\ out = NoReport
    /\ last = <<>>

CallNextId ==
    /\ pc = "fn"
    /\ last = <<>>
    /\ ret' = next_id(expenses)
    /\ last' = <<"next_id">>
    /\ UNCHANGED <<file, expenses, pc, pending, out>>

CallReport(name, report) ==
    /\ pc = "fn"
    /\ last = <<>>
    /\ out' = report
    /\ last' = <<name>>
    /\ UNCHANGED <<file, expenses, pc, pending, ret>>

CallList == CallReport("list", list_expenses(expenses))

CallCategory == CallReport("summary_category", summary_category(expenses))

CallMonth == CallReport("summary_month", summary_month(expenses))

NextFn ==
    \/ CallNextId
    \/ CallList
    \/ CallCategory
    \/ CallMonth

SpecFn == InitFn /\ [][NextFn]_vars

(***************************************************************************)
(* Properties.                                                             *)
(***************************************************************************)
\* the most recent call or command
LastOp == IF last = <<>> THEN "" ELSE last[Len(last)]

\* a >= 0, as Python compares
NonNegative(a) == NumLess(PyInt(0), a) \/ PyEq(a, PyInt(0))

\* two Expense objects equal field for field (dataclass ==)
SameRecord(a, b) ==
    /\ PyEq(a.id, b.id)
    /\ PyEq(a.date, b.date)
    /\ PyEq(a.category, b.category)
    /\ PyEq(a.description, b.description)
    /\ PyEq(a.amount, b.amount)

SameRecords(xs, ys) ==
    /\ Len(xs) = Len(ys)
    /\ \A i \in DOMAIN xs : SameRecord(xs[i], ys[i])

\* the records of list whose key (keys[i]) is k, in list order
Group(keys, list, k) ==
    LET idx == SelectSeq([i \in DOMAIN list |-> i], LAMBDA i : keys[i] = k)
    IN  [j \in DOMAIN idx |-> list[idx[j]]]

\* rows is a summary of list grouped by keys: one row per distinct key, each
\* row's value the sum (float additions in list order) of the amounts of its
\* group, rows in ascending order of the key text
IsSummary(rows, keys, list) ==
    /\ Len(rows) = Cardinality({keys[i] : i \in DOMAIN list})
    /\ {rows[r].k : r \in DOMAIN rows} = {keys[i] : i \in DOMAIN list}
    /\ \A r \in DOMAIN rows : rows[r].v = Total(Group(keys, list, rows[r].k))
    /\ \A r \in DOMAIN rows : r < Len(rows) => StrLess(rows[r].k.s, rows[r + 1].k.s)

\* the values of the rows added up in the order of the rows
RECURSIVE SumRows(_, _)
SumRows(rows, acc) ==
    IF rows = <<>> THEN acc ELSE SumRows(Tail(rows), NumAdd(acc, Head(rows).v))

\* the exact sum of the amounts at the indices in S
RECURSIVE ExactSum(_, _)
ExactSum(list, S) ==
    IF S = {} THEN 0
    ELSE LET i == CHOOSE x \in S : TRUE
         IN  list[i].amount.n + ExactSum(list, S \ {i})

\* no sum of any of the amounts needs rounding
NoRounding(list) ==
    /\ \A i \in DOMAIN list : list[i].amount.t = "float" /\ list[i].amount.n >= 0
    /\ \A S \in SUBSET (DOMAIN list) : RoundNat(ExactSum(list, S)) = ExactSum(list, S)

(* C1: in every state of the menu loop the ids of the in-memory records    *)
(* are pairwise distinct.  Refuted: load_expenses keeps the ids the file   *)
(* gives, and defaults each missing id to 0.                               *)
C1_IdsDistinct ==
    \A i, j \in DOMAIN expenses : i # j => ~PyEq(expenses[i].id, expenses[j].id)

C2_Ids == {expenses[i].id.n : i \in DOMAIN expenses}

C2_Returns ==
    LastOp = "next_id" =>
        /\ ret.ok
        /\ ret.v = PyInt(IF expenses = <<>> THEN 1
                         ELSE 1 + CHOOSE m \in C2_Ids : \A x \in C2_Ids : x <= m)
        /\ \A i \in DOMAIN expenses : ~PyEq(ret.v, expenses[i].id)

(* C2: next_id(R) returns 1 for the empty list and otherwise the largest   *)
(* id plus one; the result is the id of no record of R; R is unchanged.    *)
C2_NextId == []C2_Returns /\ [][LastOp' = "next_id" => expenses' = expenses]_vars

C2_Witness ==
    /\ LastOp = "next_id"
    /\ [i \in DOMAIN expenses |-> expenses[i].id] = <<PyInt(1), PyInt(5), PyInt(3)>>
    /\ ret = Ok(PyInt(6))

C3_Pre(list) ==
    \A i \in DOMAIN list :
        /\ list[i].id.t = "int" /\ list[i].id.n >= 0
        /\ list[i].amount.t = "float" /\ list[i].amount.n >= 0

C3_SavedThenLoaded ==
    Len(last) >= 2 /\ last[Len(last) - 1] = "save" /\ last[Len(last)] = "load"

(* C3: save_expenses(R) then load_expenses() returns R field for field,    *)
(* same length, same order, whatever the file held before, when the ids    *)
(* of R are non-negative integers and its amounts finite and non-negative. *)
C3_RoundTrip ==
    C3_SavedThenLoaded /\ C3_Pre(expenses) => ret.ok /\ SameRecords(ret.items, expenses)

C3_Witness ==
    /\ last = <<"save", "load">>
    /\ Len(expenses) >= 2
    /\ expenses[1].id # expenses[2].id
    /\ C3_Pre(expenses)
    /\ ret.ok /\ Len(ret.items) = Len(expenses)

C4_Malformed(f) ==
    \/ f.kind \in {"undecodable", "garbage", "scalar", "object", "emptyobject"}
    \/ f.kind = "array" /\ \E i \in DOMAIN f.items : ~f.items[i].obj

C4_ReturnsEmpty ==
    LastOp = "load" /\ (file.kind = "absent" \/ C4_Malformed(file)) =>
        ret.ok /\ ret.items = <<>>

(* C4: load_expenses returns the empty list and raises nothing when the    *)
(* file is absent or its content is not an array of expense objects, and   *)
(* leaves the file as it was.  Refuted: only text that is no JSON at all   *)
(* is caught.                                                              *)
C4_LoadNeverFails == []C4_ReturnsEmpty /\ [][LastOp' = "load" => file' = file]_vars

\* null, or text with no digit that does not spell nan, inf or infinity
C5_NoNumericForm(token) ==
    \/ token.t = "jnull"
    \/ /\ token.t = "jstr"
       /\ ~\E i \in DOMAIN token.s : token.s[i] >= 48 /\ token.s[i] <= 57
       /\ \A w \in {T_nan, T_inf, T_infinity} :
             Lower(Strip(token.s)) \notin {w, <<43>> \o w, <<45>> \o w}

C5_Defaults(entry, e) ==
    /\ entry.amount.t = "absent" => e.amount = PyFloat(0)
    /\ entry.id.t = "absent" => e.id = PyInt(0)
    /\ entry.date.t = "absent" => e.date = PyStr(<<>>)
    /\ entry.category.t = "absent" => e.category = PyStr(<<>>)
    /\ entry.description.t = "absent" => e.description = PyStr(<<>>)

(* C5: a stored amount that is present and has no numeric form makes       *)
(* load_expenses fail (no list is returned); a missing amount loads as     *)
(* 0.0, a missing id as 0, a missing date, category or description as "".  *)
C5_Load ==
    LastOp = "load" /\ file.kind = "array" =>
        /\ (\E i \in DOMAIN file.items :
               file.items[i].obj /\ C5_NoNumericForm(file.items[i].amount))
           => ~ret.ok /\ ret.items = <<>>
        /\ ret.ok =>
              /\ Len(ret.items) = Len(file.items)
              /\ \A i \in DOMAIN file.items : C5_Defaults(file.items[i], ret.items[i])

C5_Witness ==
    /\ LastOp = "load"
    /\ file.kind = "array" /\ Len(file.items) = 2
    /\ file.items[1].obj /\ file.items[1].amount.t = "absent"
    /\ file.items[2].obj /\ file.items[2].amount = J_str(<<97, 98, 99>>)
    /\ ~ret.ok /\ ret.err = "ValueError"

(* C6: a confirmed reset leaves the file holding the empty array whatever  *)
(* it held and whatever is in memory; loading it gives the empty list; a   *)
(* second reset leaves the same file; the menu's list is empty after it.   *)
C6_Reset ==
    LastOp = "reset" =>
        /\ file = ArrayFile(<<>>)
        /\ load_expenses(file) = OkList(<<>>)
        /\ pc # "store" => pc = "menu" /\ expenses = <<>>

C6_Witness == last = <<"add", "reset">> /\ expenses = <<>> /\ file = ArrayFile(<<>>)

C7_Categories == [i \in DOMAIN expenses |-> expenses[i].category]

C7_Summary ==
    /\ out.ok
    /\ IsSummary(out.rows, C7_Categories, expenses)
    /\ expenses = <<>> => out.rows = <<>> /\ Total(expenses) = PyInt(0)

C7_AddsUp == PyEq(SumRows(out.rows, PyInt(0)), Total(expenses))

(* C7 as stated: the category summary has one entry per distinct category, *)
(* each the sum of the amounts of that category, in ascending order of the *)
(* category text; the entries add up to the grand total; the empty list    *)
(* gives no entries and a zero total, without error.  Refuted: float sums  *)
(* taken in two orders differ by rounding.                                 *)
C7_Original == LastOp = "summary_category" => C7_Summary /\ C7_AddsUp

(* C7 amended: as stated, each sum being the float sum in insertion order, *)
(* and the entries adding up to the grand total when no sum of the amounts *)
(* needs rounding.                                                         *)
C7_Amended ==
    LastOp = "summary_category" => C7_Summary /\ (NoRounding(expenses) => C7_AddsUp)

C7_Witness ==
    /\ LastOp = "summary_category"
    /\ C7_Categories = <<PyStr(<<98>>), PyStr(<<97>>), PyStr(<<97>>)>>
    /\ NoRounding(expenses)
    /\ out.rows = <<Item(PyStr(<<97>>), PyFloat(2)), Item(PyStr(<<98>>), PyFloat(1))>>

C8_Key(date) ==
    IF Len(date.s) <= 7 THEN date ELSE PyStr([i \in 1..7 |-> date.s[i]])

C8_Months == [i \in DOMAIN expenses |-> C8_Key(expenses[i].date)]

(* C8: the month summary groups the records by the first 7 characters of   *)
(* date (the whole date when shorter), each group the sum of its amounts,  *)
(* in ascending order of the key; two records share a group exactly when   *)
(* their 7-character prefixes are equal.                                   *)
C8_MonthSummary ==
    LastOp = "summary_month" => out.ok /\ IsSummary(out.rows, C8_Months, expenses)

C8_Witness ==
    /\ LastOp = "summary_month"
    /\ [i \in DOMAIN expenses |-> expenses[i].date]
           = <<PyStr(D_Jan15), PyStr(D_Short), PyStr(D_Jan02)>>
    /\ out.rows = <<Item(PyStr(D_Short), expenses[2].amount),
                    Item(PyStr(<<50,48,50,52,45,48,49>>),
                         Total(<<expenses[1], expenses[3]>>))>>

C9_Appended ==
    LastOp = "add" =>
        LET e == expenses[Len(expenses)]
        IN  /\ NonNegative(e.amount)
            /\ e.category.t = "str" /\ e.category.s # <<>>
            /\ e.description.t = "str" /\ e.description.s # <<>>

(* C9: a negative or non-numeric answer is rejected, changes nothing and is *)
(* asked again; every record add_expense appends has amount >= 0, a        *)
(* non-empty category and a non-empty description.  Refuted: the answer    *)
(* "nan" gets through float() and through the test money < 0.              *)
C9_AppendedValid ==
    /\ []C9_Appended
    /\ [][LastOp' = "amount_rejected" =>
             file' = file /\ expenses' = expenses /\ pc' = "amount"]_vars

C10_FileHoldsList ==
    LastOp = "add" =>
        /\ load_expenses(file).ok
        /\ SameRecords(load_expenses(file).items, expenses)

C10_Appends ==
    LastOp' = "add" =>
        /\ expenses' = Append(expenses, expenses'[Len(expenses')])
        /\ Ok(expenses'[Len(expenses')].id) = next_id(expenses)

C10_ReportsReadOnly ==
    LastOp' \in {"list", "summary_category", "summary_month"} =>
        file' = file /\ expenses' = expenses

(* C10: each completed add_expense appends one record, its id next_id of   *)
(* the list before, and leaves the file holding exactly the in-memory      *)
(* list (load_expenses would return a list equal to it); the reports       *)
(* change neither.  Refuted through C9: a record whose amount is nan is    *)
(* equal to nothing, itself included.                                      *)
C10_Persisted ==
    []C10_FileHoldsList /\ [][C10_Appends]_vars /\ [][C10_ReportsReadOnly]_vars

====
